---- MODULE Spec2Model ----
(***************************************************************************)
(* The view reconciliation core of quill (src/src/view.rs): the View       *)
(* contract, ViewState, the type-erased ViewAdapter, and the three         *)
(* scheduler passes build_views, rebuild_views and reattach_children,      *)
(* driven over a small ECS world.                                          *)
(***************************************************************************)
EXTENDS Integers, Sequences, FiniteSets, TLC

\* ------------------------------------------------------------------ bounds
\* Change ticks are kept relative to the world's clock, as change detection
\* compares them: Now is the current cycle, Now - 1 the previous one, and 0
\* stands for "MaxAge or more cycles ago".
MaxAge == 2
\* Cleanups one build or rebuild body may register through its Cx.
MaxCleanups == 2

\* ------------------------------------------------------------ the domains
Entity == {"A", "B", "C"}
NoEntity == "NoEntity"
\* External values a view may read through its Cx (tracked dependencies).
Res == {"X", "Y"}
Now == MaxAge
\* The views of the model. "Frame" is a static thin wrapper: it reads nothing
\* and its attach_children returns true. "CounterX" and "CounterY" read the
\* external value X (Y) and keep the default attach_children; "WrapX" reads
\* X and is a thin wrapper. "NoView": the entity carries no view at all.
NoView == "NoView"
ViewKind == {"Frame", "CounterX", "WrapX", "CounterY"}
IsWrapper(view) == view \in {"Frame", "WrapX"}
IsReactive(view) == view \in {"CounterX", "WrapX", "CounterY"}
Reads(view) ==
    CASE view \in {"CounterX", "WrapX"} -> {"X"}
      [] view = "CounterY" -> {"Y"}
      [] OTHER -> {}
\* The entities a cleanup or body may tear down or strip of their scope.
Targets == {"B", "C"}
\* NodeSpan values: Empty, or Single(n) written as the node id n.
NodeSpan == {"Empty", "n1"}

\* The worlds the model starts from: the Parent component of each entity (a
\* finite acyclic hierarchy) and the root view inserted on it.
Chain == [A |-> NoEntity, B |-> "A", C |-> "B"]
Fan == [A |-> NoEntity, B |-> "A", C |-> "A"]
Apart == [A |-> NoEntity, B |-> "A", C |-> NoEntity]
Worlds ==
    { [parent |-> Chain, view |-> [A |-> "Frame", B |-> "WrapX", C |-> "CounterY"]],
      [parent |-> Chain, view |-> [A |-> "Frame", B |-> "CounterX", C |-> "CounterY"]],
      [parent |-> Fan, view |-> [A |-> NoView, B |-> "WrapX", C |-> "CounterY"]],
      [parent |-> Apart, view |-> [A |-> NoView, B |-> "CounterX", C |-> "CounterY"]] }

\* ------------------------------------------------- components of an entity
\* ViewStateCell<V>: the (View, Option<State>) pair, or no such component.
NoCell == [has |-> FALSE, view |-> "Frame", built |-> FALSE, span |-> "Empty"]
NoScope == [has |-> FALSE, tick |-> 0, deps |-> {}, cleanups |-> <<>>]

\* ViewStateCell::new: the view with state None.
ViewStateCell_new(view) ==
    [has |-> TRUE, view |-> view, built |-> FALSE, span |-> "Empty"]

\* View::to_root: the cell of the (ViewStateCell, ViewThunk, ViewRoot) bundle.
to_root(view) == IF view = NoView THEN NoCell ELSE ViewStateCell_new(view)

\* "absent": no cell on the node; "none": state = None; "some": built.
CellState(c) == IF ~c.has THEN "absent" ELSE IF c.built THEN "some" ELSE "none"

\* ------------------------------------------------------ tracking scope
TrackingScope_new(t) == [has |-> TRUE, tick |-> t, deps |-> {}, cleanups |-> <<>>]

\* A recorded dependency changed strictly after the scope's stamped tick.
dependencies_changed(sc, w, this_run) ==
    \E r \in sc.deps : w.res[r] > sc.tick

\* Replace deps and cleanups in this scope with those of the other scope.
take_deps(sc, other) ==
    [sc EXCEPT !.deps = other.deps, !.cleanups = other.cleanups]

\* ------------------------------------------------------ what a body does
\* A world effect of a cleanup or of a build/rebuild body:
\*   <<"none", _>>, <<"touch", r>> (mutate external value r),
\*   <<"raze", x>> (tear down the view of node x through its adapter),
\*   <<"unscope", x>> (remove the TrackingScope component of node x),
\*   <<"reenter", op>> (a body calls operation op of its own node's adapter).
NoEffect == <<"none", "-">>
AdapterOps == {"nodes", "rebuild", "raze", "attach_children"}
Effects(self) ==
    {NoEffect}
        \cup { <<"touch", r>> : r \in Res }
        \cup { <<"raze", x>> : x \in Targets \ self }
        \cup { <<"unscope", x>> : x \in Targets }
        \cup (IF self = {} THEN {} ELSE { <<"reenter", op>> : op \in AdapterOps })

\* One run of a build or rebuild body through its Cx: the span the view
\* reports afterwards, the reads it records, the cleanups it registers and
\* its effect on the world.
\* A static view reads nothing, registers nothing and always reports the
\* same node; a reactive one records its reads and registers MaxCleanups
\* cleanups.
BodyRuns(e, view) ==
    IF IsReactive(view)
    THEN [span : NodeSpan, deps : {Reads(view)}, ncl : {MaxCleanups},
          eff : Effects({e})]
    ELSE [span : {"n1"}, deps : {{}}, ncl : {0}, eff : {NoEffect}]

\* ------------------------------------------------------ the View contract
View_nodes(span) == span
View_build(b) == b.span
\* Returns true iff nodes() now differs from what it was before the call.
View_rebuild(span, b) == [span |-> b.span, ret |-> b.span # span]
View_attach_children(view) == IsWrapper(view)

\* ------------------------------------------------------------ ViewState
\* A variant that reports the first build as a change only when the built
\* view has nodes.
ViewState_rebuild_nonempty(vs, b) ==
    IF vs.built
    THEN LET r == View_rebuild(vs.span, b)
         IN [vs |-> [vs EXCEPT !.span = r.span], ret |-> r.ret, body |-> "rebuild"]
    ELSE [vs |-> [vs EXCEPT !.built = TRUE, !.span = View_build(b)],
          ret |-> View_build(b) # "Empty", body |-> "build"]

ViewState_rebuild(vs, b) ==
    IF vs.built
    THEN LET r == View_rebuild(vs.span, b)
         IN [vs |-> [vs EXCEPT !.span = r.span], ret |-> r.ret, body |-> "rebuild"]
    ELSE [vs |-> [vs EXCEPT !.built = TRUE, !.span = View_build(b)],
          ret |-> TRUE, body |-> "build"]

\* A variant that calls the view's raze body whatever the state.
ViewState_raze_unguarded(vs) == "raze"

ViewState_raze(vs) == IF vs.built THEN "raze" ELSE "none"

ViewState_attach_children(vs) ==
    IF vs.built
    THEN [ret |-> View_attach_children(vs.view), body |-> "attach"]
    ELSE [ret |-> FALSE, body |-> "none"]

\* ------------------------------------------------------------ ViewAdapter
\* The record of one adapter call on entity e, from world w to world w2:
\* the cell before and after, the view body it entered, what it returned,
\* what the entered rebuild body itself returned, whether the call left
\* everything as it was (same), and whether it left everything but the
\* entity's own cell as it was (rest).
Call(op, e, w, w2, body, ret, bodyret, same) ==
    [op |-> op, ent |-> e, pre |-> CellState(w.cell[e]),
     post |-> CellState(w2.cell[e]), body |-> body, ret |-> ret,
     bodyret |-> bodyret, same |-> same,
     rest |-> [w2 EXCEPT !.cell[e] = w.cell[e]] = w]

Bool(x) == IF x THEN "true" ELSE "false"

\* A variant that builds the view on demand when asked for its nodes.
ViewAdapter_nodes_building(w, e) ==
    LET c == w.cell[e]
        w2 == IF c.has /\ ~c.built
              THEN [w EXCEPT !.cell[e].built = TRUE, !.cell[e].span = "n1"]
              ELSE w
        ret == IF c.has THEN View_nodes(w2.cell[e].span) ELSE "Empty"
    IN [w |-> w2, ret |-> ret,
        calls |-> <<Call("nodes", e, w, w2, "none", ret, "-", w2 = w)>>]

ViewAdapter_nodes(w, e) ==
    LET c == w.cell[e]
        ret == IF c.has THEN (IF c.built THEN View_nodes(c.span) ELSE "Empty")
               ELSE "Empty"
    IN [w |-> w, ret |-> ret,
        calls |-> <<Call("nodes", e, w, w, "none", ret, "-", TRUE)>>]

\* A variant that razes the state but leaves the cell on the node.
ViewAdapter_raze_keep(w, e) ==
    IF w.cell[e].has
    THEN LET w2 == [w EXCEPT !.cell[e] = ViewStateCell_new(w.cell[e].view)]
         IN [w |-> w2,
             calls |-> <<Call("raze", e, w, w2, ViewState_raze(w.cell[e]),
                              "unit", "-", w2 = w)>>]
    ELSE [w |-> w, calls |-> <<Call("raze", e, w, w, "none", "unit", "-", TRUE)>>]

\* entity.take::<ViewStateCell>(), then raze of the state it held.
ViewAdapter_raze(w, e) ==
    IF w.cell[e].has
    THEN LET w2 == [w EXCEPT !.cell[e] = NoCell]
         IN [w |-> w2,
             calls |-> <<Call("raze", e, w, w2, ViewState_raze(w.cell[e]),
                              "unit", "-", w2 = w)>>]
    ELSE [w |-> w, calls |-> <<Call("raze", e, w, w, "none", "unit", "-", TRUE)>>]

\* A variant that asks for a reattachment when the node has no cell.
ViewAdapter_attach_children_absent(w, e) ==
    IF w.cell[e].has
    THEN LET r == ViewState_attach_children(w.cell[e])
         IN [w |-> w, ret |-> r.ret,
             calls |-> <<Call("attach_children", e, w, w, r.body, Bool(r.ret),
                              "-", TRUE)>>]
    ELSE [w |-> w, ret |-> TRUE,
          calls |-> <<Call("attach_children", e, w, w, "none", "true", "-",
                           TRUE)>>]

ViewAdapter_attach_children(w, e) ==
    IF w.cell[e].has
    THEN LET r == ViewState_attach_children(w.cell[e])
         IN [w |-> w, ret |-> r.ret,
             calls |-> <<Call("attach_children", e, w, w, r.body, Bool(r.ret),
                              "-", TRUE)>>]
    ELSE [w |-> w, ret |-> FALSE,
          calls |-> <<Call("attach_children", e, w, w, "none", "false", "-",
                           TRUE)>>]

\* The effect of a cleanup or body applied to the world.
ApplyEffect(w, eff) ==
    CASE eff[1] = "touch" ->
            [w |-> [w EXCEPT !.res[eff[2]] = Now], calls |-> <<>>]
      [] eff[1] = "raze" ->
            IF w.thunk[eff[2]] THEN ViewAdapter_raze(w, eff[2])
            ELSE [w |-> w, calls |-> <<>>]
      [] eff[1] = "unscope" ->
            [w |-> [w EXCEPT !.scope[eff[2]] = NoScope], calls |-> <<>>]
      [] OTHER -> [w |-> w, calls |-> <<>>]

\* A variant of the cell's lock that lets its holder in again.
lock_cell_reentrant(held) == "acquired"

\* view_cell.0.lock().unwrap() on a Mutex with `held` outstanding guards: a
\* second lock by the thread that holds the guard does not return.
lock_cell(held) == IF held = 0 THEN "acquired" ELSE "blocked"

\* How a lock() that does not return ends: std leaves it unspecified whether
\* the thread panics or deadlocks.
LockFaults == {"fault", "deadlock"}

\* No adapter call was issued from inside a body of the same node.
NoNested == [op |-> "none", ent |-> NoEntity, held |-> 0, entered |-> FALSE]

\* Adapter operation op of node e, called from e's own build or rebuild body,
\* that is while ViewAdapter::rebuild holds the guard of e's cell. raze takes
\* the cell off the entity before it asks for the lock.
Reentry(w, e, op) ==
    LET got == lock_cell(1) = "acquired"
    IN [w |-> IF op = "raze" /\ ~got THEN [w EXCEPT !.cell[e] = NoCell] ELSE w,
        blocked |-> ~got,
        nested |-> [op |-> op, ent |-> e, held |-> 1, entered |-> got]]

\* Cx::new(world, entity, scope), then ViewState::rebuild under the cell's
\* lock: the body's reads and cleanups land in the scope passed in.
\* blocked: the body called back into its own adapter and the call never
\* returned; the state and the scope are as the body found them.
ViewAdapter_rebuild(w, e, sc, b) ==
    IF w.cell[e].has
    THEN LET r == ViewState_rebuild(w.cell[e], b)
             sc2 == [sc EXCEPT !.deps = b.deps,
                               !.cleanups = [i \in 1..b.ncl |-> i]]
             w2 == [w EXCEPT !.cell[e] = r.vs]
             fx == ApplyEffect(w2, b.eff)
             bodyret == IF w.cell[e].built
                        THEN Bool(View_rebuild(w.cell[e].span, b).ret) ELSE "-"
             re == IF b.eff[1] = "reenter" THEN Reentry(w, e, b.eff[2])
                   ELSE [w |-> w, blocked |-> FALSE, nested |-> NoNested]
         IN IF re.blocked
            THEN [w |-> re.w, scope |-> sc, ret |-> FALSE, blocked |-> TRUE,
                  nested |-> re.nested, calls |-> <<>>]
            ELSE [w |-> fx.w, scope |-> sc2, ret |-> r.ret, blocked |-> FALSE,
                  nested |-> re.nested,
                  calls |-> <<Call("rebuild", e, w, w2, r.body, Bool(r.ret),
                                   bodyret, fx.w = w /\ sc2 = sc)>> \o fx.calls]
    ELSE [w |-> w, scope |-> sc, ret |-> FALSE, blocked |-> FALSE,
          nested |-> NoNested,
          calls |-> <<Call("rebuild", e, w, w, "none", "false", "-", TRUE)>>]

\* ------------------------------------------------------------------ state
VARIABLES
    world,        \* the ECS world: components per entity and resources
    pc,           \* "app", "build", "rebuild", "cleanup", "reattach", "fault"
    worklist,     \* roots_copy (build_views) / changed (rebuild_views), unprocessed
    cur,          \* scope_entity of the rebuild_views loop
    cleanups,     \* the cleanups taken from cur's scope, not yet run
    work_queue,   \* work_queue of reattach_children
    calls,        \* history: the adapter calls made by the last step
    ran,          \* history: cleanups run for cur in this loop iteration
    pending,      \* history: cur's scope as the loop found it
    stable,       \* history: tracked nodes none of whose dependencies had
                  \*   changed since the previous cycle, as this phase began
    rebuilt,      \* history: nodes whose rebuild returned true this phase
    selected,     \* history: tracked nodes whose scope reported a changed
                  \*   dependency as this phase began
    reacted,      \* history: nodes the loop called the adapter's rebuild on
    reactedAgain, \* history: those it called it on more than once this phase
    seeds,        \* history: nodes marked when reattach_children began
    attached,     \* history: nodes attach_children was invoked on this phase
    attachedTrue, \* history: those whose attach_children returned true
    revisited,    \* history: those it was invoked on more than once this phase
    borrow,       \* per node: outstanding guards of its cell's Mutex
    nested,       \* history: the adapter call a body made on its own node
    unseen        \* history: built nodes with a dependency changed since their
                  \*   scope was last stamped by a build or a reaction

sched == <<pc, worklist, cur, cleanups, work_queue>>
phase == <<selected, reacted, reactedAgain>>
loop == <<ran, pending, stable, rebuilt, phase>>
reattach == <<seeds, attached, attachedTrue, revisited>>
locks == <<borrow, nested>>
vars == <<world, sched, calls, loop, reattach, locks, unseen>>

\* The built nodes whose scope lists r as a dependency.
Readers(w, r) ==
    { e \in Entity : /\ w.thunk[e] /\ w.cell[e].has /\ w.cell[e].built
                     /\ w.scope[e].has /\ r \in w.scope[e].deps }

\* The nodes of s that are still built and tracked in w.
Tracked(w, s) ==
    { e \in s : /\ w.thunk[e] /\ w.cell[e].has /\ w.cell[e].built
                /\ w.scope[e].has }

\* The nodes with an unseen change after effect eff led to world w, `fresh`
\* being the nodes whose scope this step stamped.
Unseen(w, s, eff, fresh) ==
    Tracked(w, (s \cup (IF eff[1] = "touch" THEN Readers(w, eff[2]) ELSE {}))
                   \ fresh)

\* The state after the root bundles of one of the worlds ws were spawned.
InitFrom(ws) ==
    /\ \E c \in ws :
          world = [parent |-> c.parent,
                   thunk |-> [e \in Entity |-> c.view[e] # NoView],
                   root_added |-> [e \in Entity |-> c.view[e] # NoView],
                   cell |-> [e \in Entity |-> to_root(c.view[e])],
                   scope |-> [e \in Entity |-> NoScope],
                   output_changed |-> [e \in Entity |-> FALSE],
                   res |-> [r \in Res |-> 0]]
    /\ pc = "app"
    /\ worklist = {}
    /\ cur = NoEntity
    /\ cleanups = <<>>
    /\ work_queue = {}
    /\ calls = <<>>
    /\ ran = <<>>
    /\ pending = NoScope
    /\ stable = {}
    /\ rebuilt = {}
    /\ selected = {}
    /\ reacted = {}
    /\ reactedAgain = {}
    /\ seeds = {}
    /\ attached = {}
    /\ attachedTrue = {}
    /\ revisited = {}
    /\ borrow = [e \in Entity |-> 0]
    /\ nested = NoNested
    /\ unseen = {}

Init == InitFrom(Worlds)

\* A host hierarchy with a parent cycle between the view nodes A and B, both
\* thin wrappers, and the reactive child C of A.
Cycle == [A |-> "B", B |-> "A", C |-> "A"]
CyclicWorlds ==
    { [parent |-> Cycle, view |-> [A |-> "Frame", B |-> "Frame", C |-> "CounterY"]] }

InitCyclic == InitFrom(CyclicWorlds)

\* ------------------------------------------------- the application's steps
\* The application mutates an external value between two cycles.
SetResource(r) ==
    /\ pc = "app"
    /\ world' = [world EXCEPT !.res[r] = Now]
    /\ calls' = <<>>
    /\ unseen' = Unseen(world', unseen, <<"touch", r>>, {})
    /\ UNCHANGED <<sched, loop, reattach, locks>>

\* thunk.0.raze(world, e), called by the owner of the view.
AppRaze(e) ==
    /\ pc = "app"
    /\ world.thunk[e]
    /\ LET r == ViewAdapter_raze(world, e)
       IN world' = r.w /\ calls' = r.calls
    /\ unseen' = Tracked(world', unseen)
    /\ UNCHANGED <<sched, loop, reattach, locks>>

\* thunk.0.nodes(world, e), called by whoever needs the view's output.
AppNodes(e) ==
    /\ pc = "app"
    /\ world.thunk[e]
    /\ LET r == ViewAdapter_nodes(world, e)
       IN world' = r.w /\ calls' = r.calls
    /\ UNCHANGED <<sched, loop, reattach, locks, unseen>>

\* ------------------------------------------------------------ build_views
\* world.change_tick(): the clock does not advance within a cycle.
change_tick(w) == Now

\* A variant that takes every root, freshly added or not.
build_views_roots_all(w) == { e \in Entity : w.thunk[e] }

\* Added<ViewRoot> entities that carry a ViewThunk.
build_views_roots(w) == { e \in Entity : w.root_added[e] /\ w.thunk[e] }

BuildBegin ==
    /\ pc = "app"
    /\ pc' = "build"
    /\ worklist' = build_views_roots(world)
    /\ world' = [world EXCEPT !.root_added = [e \in Entity |-> FALSE]]
    /\ calls' = <<>>
    /\ UNCHANGED <<cur, cleanups, work_queue, loop, reattach, locks, unseen>>

\* One root: a fresh scope, the adapter's rebuild, the scope inserted.
build_views_root(w, e, b) ==
    IF w.thunk[e]
    THEN LET r == ViewAdapter_rebuild(w, e, TrackingScope_new(change_tick(w)), b)
         IN IF r.blocked
            THEN [w |-> r.w, blocked |-> TRUE, nested |-> r.nested,
                  calls |-> r.calls]
            ELSE [w |-> [r.w EXCEPT !.scope[e] = r.scope], blocked |-> FALSE,
                  nested |-> r.nested, calls |-> r.calls]
    ELSE [w |-> w, blocked |-> FALSE, nested |-> NoNested, calls |-> <<>>]

\* The guards outstanding after a step on node e: the one the blocked call's
\* caller still holds, or none.
Guards(e, blocked) ==
    [x \in Entity |-> IF blocked /\ x = e THEN 1 ELSE 0]

BuildStep(e) ==
    /\ pc = "build" /\ e \in worklist
    /\ \E b \in BodyRuns(e, world.cell[e].view) :
          LET r == build_views_root(world, e, b)
          IN /\ world' = r.w /\ calls' = r.calls
             /\ pc' \in (IF r.blocked THEN LockFaults ELSE {"build"})
             /\ borrow' = Guards(e, r.blocked)
             /\ nested' = r.nested
             /\ unseen' = Unseen(r.w, unseen, b.eff, {e})
    /\ worklist' = worklist \ {e}
    /\ UNCHANGED <<cur, cleanups, work_queue, loop, reattach>>

\* ---------------------------------------------------------- rebuild_views
\* A variant that reacts on every tracked entity in every cycle.
rebuild_views_changed_all(w) ==
    { e \in Entity : w.scope[e].has /\ w.thunk[e] }

\* The tracked entities whose scope reports a changed dependency.
rebuild_views_changed(w) ==
    { e \in Entity : /\ w.scope[e].has /\ w.thunk[e]
                     /\ dependencies_changed(w.scope[e], w, change_tick(w)) }

RebuildBegin ==
    /\ pc = "build" /\ worklist = {}
    /\ pc' = "rebuild"
    /\ worklist' = rebuild_views_changed(world)
    /\ stable' = { e \in Entity :
                     /\ world.scope[e].has
                     /\ \A r \in world.scope[e].deps : world.res[r] < Now - 1 }
    /\ rebuilt' = {}
    /\ selected' = { e \in Entity :
                       /\ world.scope[e].has /\ world.thunk[e]
                       /\ dependencies_changed(world.scope[e], world, Now) }
    /\ reacted' = {}
    /\ reactedAgain' = {}
    /\ calls' = <<>>
    /\ UNCHANGED <<world, cur, cleanups, work_queue, ran, pending, reattach, locks,
                   unseen>>

\* scopes.get_mut(world, e).unwrap() finds the entity's scope and thunk.
ScopeFound(w, e) == w.scope[e].has /\ w.thunk[e]

\* A variant that runs the cleanups last-registered first.
take_cleanups_reversed(sc) ==
    [i \in 1..Len(sc.cleanups) |-> sc.cleanups[Len(sc.cleanups) + 1 - i]]

\* std::mem::take(&mut scope.cleanups), in the order drain(..) yields them.
take_cleanups(sc) == sc.cleanups

\* The loop takes the next changed entity and its cleanups.
RebuildPick(e) ==
    /\ pc = "rebuild" /\ e \in worklist
    /\ worklist' = worklist \ {e}
    /\ cur' = e
    /\ ran' = <<>>
    /\ pending' = world.scope[e]
    /\ calls' = <<>>
    /\ IF ScopeFound(world, e)
       THEN /\ cleanups' = take_cleanups(world.scope[e])
            /\ world' = [world EXCEPT !.scope[e].cleanups = <<>>]
            /\ pc' = "cleanup"
       ELSE /\ pc' = "fault"
            /\ UNCHANGED <<world, cleanups>>
    /\ UNCHANGED <<work_queue, stable, rebuilt, phase, reattach, locks, unseen>>

\* cleanup_fn(world) for the next drained cleanup.
CleanupStep ==
    /\ pc = "cleanup" /\ cleanups # <<>>
    /\ \E eff \in Effects({}) :
          LET fx == ApplyEffect(world, eff)
          IN /\ world' = fx.w /\ calls' = fx.calls
             /\ unseen' = Unseen(fx.w, unseen, eff, {})
    /\ ran' = Append(ran, Head(cleanups))
    /\ cleanups' = Tail(cleanups)
    /\ UNCHANGED <<pc, worklist, cur, work_queue, pending, stable, rebuilt,
                   phase, reattach, locks>>

\* A variant that marks every rebuilt entity.
mark_output_always(w, e, output_changed) ==
    [w EXCEPT !.output_changed[e] = TRUE]

\* if output_changed { world.entity_mut(e).insert(OutputChanged) }
mark_output(w, e, output_changed) ==
    IF output_changed THEN [w EXCEPT !.output_changed[e] = TRUE] ELSE w

\* A variant that leaves the stamped tick of the scope as it was.
replace_scope_stale(sc, next_scope, this_run) == take_deps(sc, next_scope)

\* Replace deps and cleanups in the current scope with the next scope.
replace_scope(sc, next_scope, this_run) ==
    [take_deps(sc, next_scope) EXCEPT !.tick = this_run]

\* The reaction of one entity, after its cleanups: a fresh scope, the
\* adapter's rebuild, the OutputChanged marker, the scope replaced.
\* fault: one of the two scopes.get_mut(..).unwrap() found nothing.
rebuild_views_react(w, e, b) ==
    IF ~ScopeFound(w, e)
    THEN [w |-> w, fault |-> TRUE, entered |-> FALSE, ret |-> FALSE,
          blocked |-> FALSE, nested |-> NoNested, calls |-> <<>>]
    ELSE LET this_run == change_tick(w)
             r == ViewAdapter_rebuild(w, e, TrackingScope_new(this_run), b)
             w2 == mark_output(r.w, e, r.ret)
         IN IF r.blocked
            THEN [w |-> r.w, fault |-> FALSE, entered |-> FALSE, ret |-> FALSE,
                  blocked |-> TRUE, nested |-> r.nested, calls |-> r.calls]
            ELSE IF ~ScopeFound(w2, e)
            THEN [w |-> w2, fault |-> TRUE, entered |-> TRUE, ret |-> r.ret,
                  blocked |-> FALSE, nested |-> r.nested, calls |-> r.calls]
            ELSE [w |-> [w2 EXCEPT !.scope[e] =
                                replace_scope(@, r.scope, this_run)],
                  fault |-> FALSE, entered |-> TRUE, ret |-> r.ret,
                  blocked |-> FALSE, nested |-> r.nested, calls |-> r.calls]

\* A variant that scans for changed scopes again after every reaction.
rebuild_views_rest_rescan(w, changed) ==
    changed \cup rebuild_views_changed(w)

\* for scope_entity in changed.iter(): `changed` was collected before the
\* loop, so what is left to iterate does not depend on the world.
rebuild_views_rest(w, changed) == changed

RebuildReact ==
    /\ pc = "cleanup" /\ cleanups = <<>>
    /\ \E b \in BodyRuns(cur, world.cell[cur].view) :
          LET r == rebuild_views_react(world, cur, b)
          IN /\ world' = r.w
             /\ pc' \in (IF r.blocked THEN LockFaults
                         ELSE IF r.fault THEN {"fault"} ELSE {"rebuild"})
             /\ calls' = r.calls
             /\ borrow' = Guards(cur, r.blocked)
             /\ nested' = r.nested
             /\ rebuilt' = IF r.entered /\ r.ret THEN rebuilt \cup {cur}
                           ELSE rebuilt
             /\ worklist' = rebuild_views_rest(r.w, worklist)
             /\ reacted' = IF r.entered THEN reacted \cup {cur} ELSE reacted
             /\ reactedAgain' = IF r.entered /\ cur \in reacted
                                THEN reactedAgain \cup {cur} ELSE reactedAgain
             /\ unseen' = Unseen(r.w, unseen, b.eff, {cur})
    /\ UNCHANGED <<cur, cleanups, work_queue, ran, pending, stable, selected,
                   reattach>>

\* ------------------------------------------------------ reattach_children
\* The entities marked OutputChanged.
changed_views(w) == { e \in Entity : w.output_changed[e] }

\* The parents of the marked entities seed the work queue.
reattach_seed(w) ==
    { w.parent[e] : e \in { x \in changed_views(w) : w.parent[x] # NoEntity } }

\* A variant that removes the marker only where it found a parent to queue.
clear_marks_with_parent(w, changed) ==
    [w EXCEPT !.output_changed =
        [e \in Entity |-> IF e \in changed /\ w.parent[e] # NoEntity
                          THEN FALSE ELSE @[e]]]

\* for view_entity in changed_views.drain(..): remove::<OutputChanged>().
clear_marks(w, changed) ==
    [w EXCEPT !.output_changed =
        [e \in Entity |-> IF e \in changed THEN FALSE ELSE @[e]]]

ReattachBegin ==
    /\ pc = "rebuild" /\ worklist = {}
    /\ pc' = "reattach"
    /\ work_queue' = reattach_seed(world)
    /\ seeds' = changed_views(world)
    /\ world' = clear_marks(world, changed_views(world))
    /\ attached' = {}
    /\ attachedTrue' = {}
    /\ revisited' = {}
    /\ calls' = <<>>
    /\ UNCHANGED <<worklist, cur, cleanups, loop, locks, unseen>>

\* A variant that leaves the visited entity in the queue.
reattach_pop_keep(w, queue, entity) ==
    IF w.thunk[entity]
    THEN LET r == ViewAdapter_attach_children(w, entity)
         IN [w |-> r.w, invoked |-> TRUE, ret |-> r.ret, calls |-> r.calls,
             queue |-> IF r.ret /\ w.parent[entity] # NoEntity
                       THEN queue \cup {w.parent[entity]}
                       ELSE queue \ {entity}]
    ELSE [w |-> w, invoked |-> FALSE, ret |-> FALSE, calls |-> <<>>,
          queue |-> queue \ {entity}]

\* A variant that walks up whatever attach_children returned.
reattach_pop_always_up(w, queue, entity) ==
    IF w.thunk[entity]
    THEN LET r == ViewAdapter_attach_children(w, entity)
         IN [w |-> r.w, invoked |-> TRUE, ret |-> r.ret, calls |-> r.calls,
             queue |-> IF w.parent[entity] # NoEntity
                       THEN (queue \ {entity}) \cup {w.parent[entity]}
                       ELSE queue \ {entity}]
    ELSE [w |-> w, invoked |-> FALSE, ret |-> FALSE, calls |-> <<>>,
          queue |-> queue \ {entity}]

\* One turn of the while loop on the popped entity.
reattach_pop(w, queue, entity) ==
    IF w.thunk[entity]
    THEN LET r == ViewAdapter_attach_children(w, entity)
         IN [w |-> r.w, invoked |-> TRUE, ret |-> r.ret, calls |-> r.calls,
             queue |-> IF r.ret /\ w.parent[entity] # NoEntity
                       THEN (queue \ {entity}) \cup {w.parent[entity]}
                       ELSE queue \ {entity}]
    ELSE [w |-> w, invoked |-> FALSE, ret |-> FALSE, calls |-> <<>>,
          queue |-> queue \ {entity}]

ReattachStep(entity) ==
    /\ pc = "reattach" /\ entity \in work_queue
    /\ LET r == reattach_pop(world, work_queue, entity)
       IN /\ world' = r.w
          /\ work_queue' = r.queue
          /\ calls' = r.calls
          /\ attached' = IF r.invoked THEN attached \cup {entity} ELSE attached
          /\ revisited' = IF r.invoked /\ entity \in attached
                          THEN revisited \cup {entity} ELSE revisited
          /\ attachedTrue' = IF r.invoked /\ r.ret
                             THEN attachedTrue \cup {entity} ELSE attachedTrue
    /\ UNCHANGED <<pc, worklist, cur, cleanups, loop, seeds, locks, unseen>>

\* The clock advances by one: every stored tick is one cycle older.
Older(t) == IF t > 0 THEN t - 1 ELSE 0
advance_clock(w) ==
    [w EXCEPT !.res = [r \in Res |-> Older(w.res[r])],
              !.scope = [e \in Entity |->
                            [w.scope[e] EXCEPT !.tick = Older(@)]]]

\* The cycle is over: the world's logical clock advances.
EndCycle ==
    /\ pc = "reattach" /\ work_queue = {}
    /\ pc' = "app"
    /\ world' = advance_clock(world)
    /\ cur' = NoEntity
    /\ calls' = <<>>
    /\ ran' = <<>>
    /\ pending' = NoScope
    /\ stable' = {}
    /\ rebuilt' = {}
    /\ selected' = {}
    /\ reacted' = {}
    /\ reactedAgain' = {}
    /\ seeds' = {}
    /\ attached' = {}
    /\ attachedTrue' = {}
    /\ revisited' = {}
    /\ UNCHANGED <<worklist, cleanups, work_queue, locks, unseen>>

\* ------------------------------------------------------ the specification
Next ==
    \/ \E r \in Res : SetResource(r)
    \/ \E e \in Entity : AppRaze(e)
    \/ \E e \in Entity : AppNodes(e)
    \/ BuildBegin
    \/ \E e \in Entity : BuildStep(e)
    \/ RebuildBegin
    \/ \E e \in Entity : RebuildPick(e)
    \/ CleanupStep
    \/ RebuildReact
    \/ ReattachBegin
    \/ \E e \in Entity : ReattachStep(e)
    \/ EndCycle

Spec == Init /\ [][Next]_vars

\* The same scheduler over the hierarchy with a parent cycle.
SpecCyclic == InitCyclic /\ [][Next]_vars

\* ------------------------------------------------------------ properties
RebuildCalls == { i \in DOMAIN calls : calls[i].op = "rebuild" }
RazeCalls == { i \in DOMAIN calls : calls[i].op = "raze" }
InRebuildPhase == pc \in {"rebuild", "cleanup"}

\* C1: the first rebuild of a node whose state is None runs the build body,
\* leaves the state Some and returns true whatever span the view reports;
\* every later rebuild runs the rebuild body on the existing state and
\* returns that body's result.
FirstRebuildIsBuild ==
    \A i \in RebuildCalls :
        /\ calls[i].pre = "none" =>
              /\ calls[i].body = "build"
              /\ calls[i].ret = "true"
              /\ calls[i].post = "some"
        /\ calls[i].pre = "some" =>
              /\ calls[i].body = "rebuild"
              /\ calls[i].ret = calls[i].bodyret
              /\ calls[i].post = "some"

\* A first build whose view reports the Empty span.
FirstBuildOfEmptyView ==
    \E i \in RebuildCalls :
        /\ calls[i].pre = "none" /\ calls[i].body = "build"
        /\ pc = "build"
        /\ world.cell[calls[i].ent].has
        /\ world.cell[calls[i].ent].span = "Empty"

\* The rebuild phase has not touched the node e.
LeftAlone(e) ==
    /\ e \notin worklist
    /\ ~(pc = "cleanup" /\ cur = e)
    /\ e \notin rebuilt
    /\ ~world.output_changed[e]
    /\ \A i \in RebuildCalls : calls[i].ent # e

RazedNow(e) == \E i \in DOMAIN calls : calls[i].op = "raze" /\ calls[i].ent = e

\* C2 as stated: a tracked node none of whose dependencies changed since
\* the previous cycle is not rebuilt, cleaned up or marked by the rebuild
\* phase, and the span it reports through nodes() stays as it was.
NoRebuildStability ==
    /\ [](InRebuildPhase => \A e \in stable : LeftAlone(e))
    /\ [][InRebuildPhase =>
            \A e \in stable :
                ViewAdapter_nodes(world', e).ret = ViewAdapter_nodes(world, e).ret]_vars

\* C2: a tracked node none of whose dependencies changed since the previous
\* cycle is not rebuilt, cleaned up or marked by the rebuild phase, and the
\* span it reports through nodes() stays as it was unless a cleanup or body
\* of another node razes it in that phase.
NoRebuildStabilityUnlessRazed ==
    /\ [](InRebuildPhase => \A e \in stable : LeftAlone(e))
    /\ [][InRebuildPhase =>
            \A e \in stable :
                \/ ViewAdapter_nodes(world', e).ret = ViewAdapter_nodes(world, e).ret
                \/ RazedNow(e)']_vars

\* The rebuild phase is over, it rebuilt some node, and a built node with a
\* recorded dependency was stable throughout.
StableBesideRebuilt ==
    /\ pc = "rebuild" /\ worklist = {}
    /\ rebuilt # {}
    /\ \E e \in stable :
          /\ world.scope[e].deps # {}
          /\ world.cell[e].built
          /\ ViewAdapter_nodes(world, e).ret = "n1"

\* C3: the cleanups the scope of a selected node held are run one by one in
\* the order of registration, each exactly once, and all of them before the
\* node's rebuild is entered; while they run the scope holds none of them.
CleanupsBeforeRebuild ==
    /\ pc = "cleanup" =>
          /\ ran \o cleanups = pending.cleanups
          /\ world.scope[cur].has => world.scope[cur].cleanups = <<>>
    /\ \A i \in RebuildCalls :
          calls[i].ent = cur /\ pc \in {"rebuild", "fault"} =>
              ran = pending.cleanups

\* A rebuild body entered after the node's MaxCleanups cleanups have run.
RebuiltAfterCleanups ==
    /\ pc = "rebuild"
    /\ Len(ran) = MaxCleanups
    /\ \E i \in RebuildCalls : calls[i].ent = cur /\ calls[i].body = "rebuild"

\* The number of entities on the path from e up to its root.
RECURSIVE Rank(_, _)
Rank(w, e) == IF w.parent[e] = NoEntity THEN 1 ELSE 1 + Rank(w, w.parent[e])

\* The sum of the ranks of the queued entities.
RECURSIVE Weight(_, _)
Weight(w, queue) ==
    IF queue = {} THEN 0
    ELSE LET x == CHOOSE x \in queue : TRUE
         IN Rank(w, x) + Weight(w, queue \ {x})

\* C4: every turn of the reattach loop strictly decreases the weight of the
\* work queue, a natural number, so the loop terminates; and the phase ends
\* only with an empty queue.
ReattachConverges ==
    [][pc = "reattach" =>
          IF pc' = "reattach"
          THEN Weight(world, work_queue') < Weight(world, work_queue)
          ELSE work_queue = {}]_vars

\* The chain C -> B -> A was walked to the root: B and A both returned true
\* and the queue is empty.
ChainWalkedToRoot ==
    /\ pc = "reattach" /\ work_queue = {}
    /\ world.parent["C"] = "B" /\ "C" \in seeds
    /\ {"A", "B"} \subseteq attachedTrue

\* C5 as stated: razing a node whose view was never built, or a node razed
\* before, calls no raze body and changes nothing.
RazeUnbuiltIsNoOp ==
    \A i \in RazeCalls :
        calls[i].pre \in {"none", "absent"} =>
            calls[i].body = "none" /\ calls[i].same

\* C5: razing a node whose view was never built calls no raze body and
\* changes nothing but the node's cell, which it removes; razing a node
\* without a cell changes nothing; the raze body runs only on a built view,
\* whose cell is gone afterwards.
RazeUnbuiltRemovesCell ==
    \A i \in RazeCalls :
        /\ calls[i].pre = "none" =>
              /\ calls[i].body = "none"
              /\ calls[i].post = "absent"
              /\ calls[i].rest
        /\ calls[i].pre = "absent" =>
              calls[i].body = "none" /\ calls[i].same
        /\ calls[i].body = "raze" =>
              calls[i].pre = "some" /\ calls[i].post = "absent"

\* A view razed before its first build.
RazedBeforeBuild ==
    \E i \in RazeCalls :
        /\ calls[i].pre = "none"
        /\ ~calls[i].same
        /\ ~world.cell[calls[i].ent].has

\* The neutral value of each adapter operation.
Neutral(op) ==
    CASE op = "nodes" -> "Empty"
      [] op = "raze" -> "unit"
      [] OTHER -> "false"

\* C6: on a node without a view cell every adapter operation enters no view
\* body, returns its neutral value and changes nothing.
AdapterDegradation ==
    \A i \in DOMAIN calls :
        calls[i].pre = "absent" =>
            /\ calls[i].body = "none"
            /\ calls[i].ret = Neutral(calls[i].op)
            /\ calls[i].same
            /\ calls[i].post = "absent"

\* The reattach loop asked a razed parent to attach its children.
AttachOnRazedParent ==
    /\ pc = "reattach"
    /\ \E i \in DOMAIN calls :
          calls[i].op = "attach_children" /\ calls[i].pre = "absent"

\* C7: nodes() on a node whose state is None returns Empty, and nodes()
\* never changes the world.
NodesBeforeBuild ==
    \A i \in DOMAIN calls :
        calls[i].op = "nodes" =>
            /\ calls[i].same
            /\ calls[i].post = calls[i].pre
            /\ calls[i].pre = "none" => calls[i].ret = "Empty"

\* nodes() asked of a view before its first build.
NodesAskedBeforeBuild ==
    \E i \in DOMAIN calls :
        /\ calls[i].op = "nodes" /\ calls[i].pre = "none"
        /\ world.root_added[calls[i].ent]

\* C8 as stated: when the raze body of a node runs, every cleanup registered
\* by its last build or rebuild has been run: its scope holds none, and none
\* taken for it is waiting.
CleanupsBeforeRaze ==
    \A i \in RazeCalls :
        calls[i].body = "raze" =>
            /\ ~(/\ world.scope[calls[i].ent].has
                 /\ world.scope[calls[i].ent].cleanups # <<>>)
            /\ ~(pc = "cleanup" /\ cur = calls[i].ent /\ cleanups # <<>>)

\* C9: no node is marked outside the rebuild phase; during it (also when it
\* stops on a fault) the marked nodes are exactly the nodes whose rebuild ran
\* and returned true; they are the ones the reattach phase starts from,
\* and when that phase ends attach_children has been invoked on the parent
\* of each of them that carries a view adapter.
MarkedIffRebuildTrue ==
    /\ pc \in {"app", "build"} => changed_views(world) = {}
    /\ pc \in {"rebuild", "cleanup", "fault"} => changed_views(world) = rebuilt
    /\ pc = "reattach" =>
          /\ seeds = rebuilt
          /\ work_queue = {} =>
                \A e \in seeds :
                    world.parent[e] # NoEntity /\ world.thunk[world.parent[e]]
                        => world.parent[e] \in attached

\* The reattach phase ends with one node rebuilt to the same span (not
\* marked) and another marked whose parent was attached.
MarkedParentAttached ==
    /\ pc = "reattach" /\ work_queue = {}
    /\ \E e \in seeds : world.parent[e] \in attached
    /\ cur \notin seeds /\ cur # NoEntity

\* C10: a node is queued or visited by the reattach loop only as the parent
\* of a marked node or of a visited node whose attach_children returned
\* true; and when the loop ends the parent carrying a view adapter of every
\* node that returned true has been visited.
UpwardPropagation ==
    pc = "reattach" =>
        /\ \A n \in attached \cup work_queue :
              \E c \in Entity :
                  world.parent[c] = n /\ c \in seeds \cup attachedTrue
        /\ work_queue = {} =>
              \A n \in attachedTrue :
                  world.parent[n] # NoEntity /\ world.thunk[world.parent[n]]
                      => world.parent[n] \in attached

\* A was visited only because the wrapper B returned true; B's sibling or
\* child C was the marked node.
GrandparentVisited ==
    /\ pc = "reattach"
    /\ "B" \in attachedTrue /\ "B" \notin seeds
    /\ "A" \in attached

RemovalTolerated ==
    pc = "fault" => nested.op # "none"

\* C13 as stated, in the hierarchy with the parent cycle A <-> B: when the
\* reattach phase comes back to a node it has already visited it stops with
\* a fault.
RevisitIsFatal ==
    revisited # {} => pc = "fault"

StartOfPhaseSnapshot ==
    /\ InRebuildPhase =>
          /\ reacted \subseteq selected
          /\ reactedAgain = {}
          /\ worklist \cap reacted = {}
          /\ worklist \cup reacted \cup (IF pc = "cleanup" THEN {cur} ELSE {})
                = selected
    /\ pc = "rebuild" /\ worklist = {} => reacted = selected

\* The loop is through, and a tracked node it did not select reports a
\* changed dependency by now: a change made during the phase.
ChangedDuringPhaseNotAdded ==
    /\ pc = "rebuild" /\ worklist = {}
    /\ reacted = selected /\ reacted # {}
    /\ \E e \in Entity \ selected :
          /\ world.scope[e].has /\ world.thunk[e]
          /\ dependencies_changed(world.scope[e], world, Now)

\* C15: from the moment the reattach loop starts until the next rebuild
\* phase no node carries the output-changed marker, and the markers the
\* reattach phase starts from were all set by the rebuild phase of the same
\* cycle.
SingleTickSignal ==
    /\ pc \in {"reattach", "app", "build"} =>
          \A e \in Entity : ~world.output_changed[e]
    /\ pc = "reattach" => seeds \subseteq rebuilt
    /\ pc = "rebuild" /\ worklist = selected =>
          \A e \in Entity : ~world.output_changed[e]

\* The reattach phase is over; it started from a marked node without a
\* parent and from no other.
MarkedRootCleared ==
    /\ pc = "reattach" /\ work_queue = {}
    /\ seeds # {}
    /\ \A e \in seeds : world.parent[e] = NoEntity
    /\ attached = {}

\* What the scope of a node holds right after the adapter call c on it: the
\* reads and the cleanups of the body if a body was entered, nothing if not.
Recorded(c) ==
    IF c.body \in {"build", "rebuild"} /\ IsReactive(world.cell[c.ent].view)
    THEN [deps |-> Reads(world.cell[c.ent].view),
          cleanups |-> [i \in 1..MaxCleanups |-> i]]
    ELSE [deps |-> {}, cleanups |-> <<>>]

\* C17 as stated: the node a build phase has just processed has its view
\* state built and carries a scope stamped with the tick of the phase
\* holding what the build recorded.
BuiltByBuildPhase ==
    pc = "build" =>
        \A i \in RebuildCalls :
            /\ world.cell[calls[i].ent].has
            /\ world.cell[calls[i].ent].built
            /\ world.scope[calls[i].ent].has
            /\ world.scope[calls[i].ent].tick = Now

\* C17: a build phase calls the adapter's rebuild only on nodes that were
\* never built; the call builds the view unless the node's cell was razed
\* before, and the node then carries a scope stamped with the tick of the
\* phase holding what the build recorded; once the build phase is over no
\* root with a cell is left unbuilt; and no step of a build phase changes a
\* scope a node already carries, other than a body removing it.
BuildOnce ==
    /\ [](pc = "build" =>
            \A i \in RebuildCalls :
                /\ calls[i].pre # "some"
                /\ calls[i].pre = "none" =>
                      calls[i].body = "build" /\ calls[i].post = "some"
                /\ world.scope[calls[i].ent].has
                /\ world.scope[calls[i].ent].tick = Now
                /\ world.scope[calls[i].ent].deps = Recorded(calls[i]).deps
                /\ world.scope[calls[i].ent].cleanups
                      = Recorded(calls[i]).cleanups)
    /\ [](pc \in {"rebuild", "cleanup", "reattach"} =>
            \A e \in Entity : world.thunk[e] => CellState(world.cell[e]) # "none")
    /\ [][pc = "build" =>
            \A e \in Entity :
                world.scope[e].has =>
                    \/ world'.scope[e] = world.scope[e]
                    \/ ~world'.scope[e].has]_vars

\* A root was built in the first build phase and registered its cleanups;
\* a later build phase is under way and its scope still holds them.
BuiltRootLeftAlone ==
    /\ pc = "build"
    /\ \E e \in Entity :
          /\ world.cell[e].built
          /\ world.scope[e].has
          /\ world.scope[e].tick < Now
          /\ Len(world.scope[e].cleanups) = MaxCleanups

\* C18: right after the rebuild phase has reacted for a node, the node's
\* scope is stamped with the current tick, its dependency set is exactly what
\* this rebuild read and its pending cleanups are exactly those this rebuild
\* registered (nothing at all when no body was entered).
ScopeReplacedAfterRebuild ==
    pc = "rebuild" =>
        \A i \in RebuildCalls :
            calls[i].ent = cur =>
                /\ world.scope[cur].has
                /\ world.scope[cur].tick = Now
                /\ world.scope[cur].deps = Recorded(calls[i]).deps
                /\ world.scope[cur].cleanups = Recorded(calls[i]).cleanups

\* A node whose old scope held dependencies and cleanups has been reacted for
\* after it was razed: the cleanups ran, no body was entered, and the scope
\* now holds neither the old dependencies nor any cleanup.
StaleScopeEmptied ==
    /\ pc = "rebuild"
    /\ pending.deps # {}
    /\ Len(ran) = MaxCleanups
    /\ \E i \in RebuildCalls :
          /\ calls[i].ent = cur
          /\ calls[i].body = "none"
          /\ world.scope[cur].deps = {}
          /\ world.scope[cur].cleanups = <<>>

\* C20: a raze through the adapter leaves the node without a cell; a node
\* without a cell never gets one again and is never newly marked
\* output-changed; and no adapter call on such a node enters a view body.
RazeIsFinal ==
    /\ [](\A i \in RazeCalls : calls[i].post = "absent")
    /\ [](\A i \in DOMAIN calls :
            calls[i].pre = "absent" =>
                calls[i].body = "none" /\ calls[i].post = "absent")
    /\ [][\A e \in Entity :
            ~world.cell[e].has =>
                /\ ~world'.cell[e].has
                /\ world'.output_changed[e] => world.output_changed[e]]_vars

\* A razed node that still carries its handle and its scope was selected by
\* the rebuild phase and reacted for: no body ran and it is not marked.
RazedNodeSelected ==
    /\ pc = "rebuild"
    /\ cur \in selected
    /\ world.thunk[cur] /\ world.scope[cur].has
    /\ ~world.output_changed[cur]
    /\ \E i \in RebuildCalls :
          /\ calls[i].ent = cur
          /\ calls[i].pre = "absent"
          /\ calls[i].ret = "false"

\* C19: while the scheduler runs, every built node with a dependency changed
\* since its scope was last stamped is one the "changed strictly after the
\* stamped tick" test reports, so that the next selection picks it.
NoLostChange ==
    pc \notin LockFaults \cup {"fault"} =>
        \A e \in unseen : dependencies_changed(world.scope[e], world, Now)

====
